---- MODULE Spec2Model ----
(***************************************************************************)
(* Season-tracking core of the aRPG Timeline bot: the season builders of   *)
(* services/arpg_api.py and the guild decision engine of                   *)
(* cogs/arpg_timeline.py over the tables of database/__init__.py.          *)
(*                                                                         *)
(* The token manager, the protected GETs and the durable cache of          *)
(* services/arpg_api.py follow further down.                               *)
(*                                                                         *)
(* The engine's clock `now` counts whole days, the API client's clock      *)
(* `utc` counts units of 30 seconds; a datetime is a natural number and    *)
(* None is NoTime.                                                         *)
(***************************************************************************)
EXTENDS Integers, Sequences, FiniteSets, TLC

MaxTime == 3
MaxCmds == 2

Day == 1
NoTime == -1
NoRow == -1

Guilds == {1, 2}
GuildOrder == <<1, 2>>
Slugs == {"poe2", "d4"}

(***************************************************************************)
(* JSON values of an API payload.                                          *)
(***************************************************************************)
JNull == [k |-> "null", s |-> "", n |-> 0]
JStr(x) == [k |-> "str", s |-> x, n |-> 0]
JInt(i) == [k |-> "int", s |-> "", n |-> i]
JIso(t) == [k |-> "iso", s |-> "Z", n |-> t]
JIsoNaive(t) == [k |-> "iso", s |-> "", n |-> t]

\* Python truthiness of a JSON value
Truthy(v) ==
    CASE v.k = "null" -> FALSE
      [] v.k = "str" -> v.s # ""
      [] v.k = "int" -> v.n # 0
      [] OTHER -> TRUE

\* Python `a or b`
PyOr(a, b) == IF Truthy(a) THEN a ELSE b

\* Python str(v)
PyStr(v) ==
    CASE v.k = "str" -> v.s
      [] v.k = "int" -> ToString(v.n)
      [] v.k = "iso" -> ToString(v.n) \o v.s
      [] OTHER -> "None"

\* str(entry.get("game") or "").strip().lower()
StripLower(v) ==
    LET raw == PyStr(PyOr(v, JStr("")))
    IN  CASE raw = " PoE2 " -> "poe2"
          [] raw = "D4" -> "d4"
          [] OTHER -> raw

to_dt(value) ==
    IF ~Truthy(value) THEN NoTime
    ELSE IF value.k = "iso" THEN value.n
    ELSE NoTime

\* int(starts_at.timestamp())
Timestamp(dt) == dt

EmptyBlock == [name |-> JNull, id |-> JNull, slug |-> JNull, code |-> JNull, start |-> JNull]
JDict(b) == [k |-> "dict", f |-> b]
JAbsent == [k |-> "null", f |-> EmptyBlock]
JNotDict == [k |-> "str", f |-> EmptyBlock]

\* entry.get(field) or {}
BlockOrEmpty(v) == IF v.k = "null" THEN JDict(EmptyBlock) ELSE v

NoSeason == [game_slug |-> "", season_key |-> "", starts_at |-> NoTime]

SeasonKeyBase(block) ==
    PyStr(PyOr(block.name, PyOr(block.id, PyOr(block.slug, PyOr(block.code, JStr(""))))))

CurrentSeasonKey(block, starts_at) ==
    LET season_key == SeasonKeyBase(block)
    IN  IF starts_at # NoTime
        THEN season_key \o ":" \o ToString(Timestamp(starts_at))
        ELSE season_key

NextSeasonKey_prefixed(block, starts_at) ==
    LET season_key_base == "next-" \o SeasonKeyBase(block)
    IN  IF starts_at # NoTime
        THEN season_key_base \o ":" \o ToString(Timestamp(starts_at))
        ELSE season_key_base

NextSeasonKey(block, starts_at) ==
    LET season_key_base == SeasonKeyBase(block)
    IN  IF starts_at # NoTime
        THEN season_key_base \o ":" \o ToString(Timestamp(starts_at))
        ELSE season_key_base

current_season_from_entry(entry) ==
    LET game_slug == StripLower(entry.game)
        blk == BlockOrEmpty(entry.current)
    IN  IF blk.k # "dict" THEN NoSeason
        ELSE LET block == blk.f
                 starts_at == to_dt(block.start)
                 season_key == CurrentSeasonKey(block, starts_at)
             IN  IF season_key = "" THEN NoSeason
                 ELSE [game_slug |-> game_slug, season_key |-> season_key,
                       starts_at |-> starts_at]

next_season_from_entry(entry) ==
    LET game_slug == StripLower(entry.game)
        blk == BlockOrEmpty(entry.next)
    IN  IF blk.k # "dict" \/ blk.f = EmptyBlock THEN NoSeason
        ELSE LET block == blk.f
                 starts_at == to_dt(block.start)
                 season_key == NextSeasonKey(block, starts_at)
             IN  IF season_key = "" THEN NoSeason
                 ELSE [game_slug |-> game_slug, season_key |-> season_key,
                       starts_at |-> starts_at]

RECURSIVE CollectSeasons_keep_next(_, _)
CollectSeasons_keep_next(items, out) ==
    IF items = <<>> THEN out
    ELSE LET entry == Head(items)
             cur == current_season_from_entry(entry)
             out1 == IF cur # NoSeason THEN Append(out, cur) ELSE out
             nxt == next_season_from_entry(entry)
             out2 == IF nxt # NoSeason THEN Append(out1, nxt) ELSE out1
         IN  CollectSeasons_keep_next(Tail(items), out2)

\* the loop body of fetch_active_seasons over the items of one payload
RECURSIVE CollectSeasons(_, _)
CollectSeasons(items, out) ==
    IF items = <<>> THEN out
    ELSE LET entry == Head(items)
             cur == current_season_from_entry(entry)
             out1 == IF cur # NoSeason THEN Append(out, cur) ELSE out
             nxt == next_season_from_entry(entry)
             dup == \E i \in 1..Len(out1) :
                        /\ out1[i].season_key = nxt.season_key
                        /\ out1[i].game_slug = nxt.game_slug
             out2 == IF nxt # NoSeason /\ ~dup THEN Append(out1, nxt) ELSE out1
         IN  CollectSeasons(Tail(items), out2)

fetch_active_seasons(items) == CollectSeasons(items, <<>>)


(***************************************************************************)
(* API payloads the season endpoint can answer with.                       *)
(***************************************************************************)
BlockS2 == [name |-> JNull, id |-> JNull, slug |-> JStr("S2"), code |-> JStr("x"), start |-> JIso(1)]
BlockD7 == [name |-> JStr(""), id |-> JInt(7), slug |-> JNull, code |-> JNull, start |-> JStr("tba")]

\* the season is announced in the 'next' block, and later moves to 'current'
EntryNext == [game |-> JStr(" PoE2 "), current |-> JAbsent, next |-> JDict(BlockS2)]
EntryCurrent == [game |-> JStr("poe2"), current |-> JDict(BlockS2), next |-> JNotDict]
EntryBoth == [game |-> JStr("poe2"), current |-> JDict(BlockS2), next |-> JDict(BlockS2)]
EntryD == [game |-> JStr("D4"), current |-> JDict(BlockD7), next |-> JAbsent]
EntryBad == [game |-> JNull, current |-> JNotDict, next |-> JDict(EmptyBlock)]

Responses ==
    { <<>>, <<EntryBad>>, <<EntryNext>>, <<EntryCurrent>>, <<EntryBoth>>, <<EntryD>>,
      <<EntryNext, EntryCurrent>>, <<EntryD, EntryNext>>, <<EntryCurrent, EntryBad, EntryD>> }

(***************************************************************************)
(* State.                                                                  *)
(***************************************************************************)
VARIABLES
    now,             \* wall clock, discord.utils.utcnow()
    guild_settings,  \* table guild_settings: guild -> notifications_enabled or NoRow
    guild_games,     \* table guild_games: guild -> slug -> enabled or NoRow
    season_cache,    \* table season_cache: set of <<guild, game_slug, season_key>>
    create_fault,    \* TRUE while the guild event system may refuse or fail
    pc,              \* position of poll_seasons_task
    seasons,         \* season list of the running poll cycle
    gq,              \* guilds of bot.guilds still to process in this cycle
    si,              \* index of the season being handled in _process_guild
    game_toggles,    \* local game_toggles of _process_guild
    pnow,            \* local now of _process_guild
    events,          \* scheduled events created so far, per triple
    log,             \* calls made by the running _process_guild
    calls,           \* _create_event_for_season calls of the running cycle
    steady,          \* no command or environment change since the running cycle began
    last,            \* the cycle before, while nothing has changed since it began
    cmds,            \* slash commands handled so far
    probe,           \* input and results of the season builders under test
    faulted,         \* guilds whose _process_guild raised in the running cycle
    utc,             \* wall clock of the API client, datetime.now(timezone.utc)
    config,          \* the environment: ARPG_API_BASE, ARPG_CLIENT_ID, ARPG_CLIENT_SECRET
    access_token,    \* ARPGApiClient._access_token ("" is None)
    token_expires_at, \* ARPGApiClient._token_expires_at
    token_fail_until, \* ARPGApiClient._token_fail_until
    api_tokens,      \* table api_tokens: key -> row or NoRow
    api_cache,       \* table api_cache: key -> row or NoRow
    issued,          \* tokens the auth endpoint has issued so far
    cl,              \* the running API call: its position and its locals
    tr,              \* what the running (or last) API call did
    failed,          \* the latest _get_access_token call whose live fetch failed
    ncalls,          \* API calls started so far
    other            \* the API call of another task, suspended at an await

dbvars == <<guild_settings, guild_games, season_cache>>
pollvars == <<pc, seasons, gq, si, game_toggles, pnow>>
histvars == <<events, log, calls, steady, last>>
clientvars == <<access_token, token_expires_at, token_fail_until>>
storevars == <<api_tokens, api_cache>>
apivars == <<utc, config, access_token, token_expires_at, token_fail_until,
             api_tokens, api_cache, issued, cl, tr, failed, ncalls, other>>
vars == <<now, guild_settings, guild_games, season_cache, create_fault,
          pc, seasons, gq, si, game_toggles, pnow,
          events, log, calls, steady, last, cmds, probe, faulted,
          utc, config, access_token, token_expires_at, token_fail_until,
          api_tokens, api_cache, issued, cl, tr, failed, ncalls, other>>

NoToggles == [slug \in Slugs |-> NoRow]
NoLast == [seasons |-> <<>>, calls |-> {}]
NoProbe == [block |-> EmptyBlock, cur |-> NoSeason, nxt |-> NoSeason, done |-> FALSE]
EventCap == 2

(***************************************************************************)
(* services/arpg_api.py: values of the API client and of its two tables.   *)
(***************************************************************************)
MaxClock == 20
MaxCalls == 2
MaxSwitches == 2
MaxTokens == 2

\* timedelta(seconds=60), timedelta(minutes=10) and timedelta(hours=1) in units of 30 s
Margin == 2
Backoff == 20
Hour == 120

\* _token_key() while ARPG_TOKEN_URL or ARPG_API_BASE is set
token_key == "token:url"
LegacyKey == "arpg_api"
OtherKey == "token:old"

\* a table is a function from the keys it stores to their rows
NoRows == <<>>

\* the locals of the running API call: of the wrapper (wnow), of the fetch
\* (attempt, token) and of _get_access_token (tnow, ftoken, fexp); src, stored,
\* first and rejected remember how the token in hand was obtained, whether the
\* store took the fetched token, whether this _get_access_token call is the
\* first since the backoff window ended, and the token the 401 answered
NoCall == [fn |-> "none", res |-> "none", at |-> "idle", force |-> FALSE, ttl |-> 0,
           wnow |-> 0, attempt |-> 0, token |-> "", tnow |-> 0, ftoken |-> "",
           fexp |-> NoTime, src |-> "none", stored |-> FALSE, read |-> FALSE, first |-> FALSE,
           rejected |-> ""]
\* the running (or last) API call as its caller and the network saw it
NoTrace == [fn |-> "none", force |-> FALSE, ttl |-> 0, t0 |-> 0,
            answered |-> FALSE, refused |-> FALSE, hit |-> FALSE, live |-> FALSE,
            gets |-> 0, status |-> 0, ret |-> <<>>, raised |-> FALSE, bare |-> FALSE, done |-> FALSE]
NoFailed == [t |-> NoTime, retried |-> FALSE]

\* no call of another task is suspended
NoOther == [cl |-> NoCall, tr |-> NoTrace, switches |-> 0]

\* ARPGApiClient.__init__ over empty tables
ClientInit ==
    /\ utc = 0
    /\ access_token = ""
    /\ token_expires_at = NoTime
    /\ token_fail_until = NoTime
    /\ api_tokens = NoRows
    /\ api_cache = NoRows
    /\ issued = 0
    /\ cl = NoCall
    /\ tr = NoTrace
    /\ failed = NoFailed
    /\ ncalls = 0
    /\ other = NoOther


Init ==
    /\ now = 0
    /\ guild_settings = [g \in Guilds |-> NoRow]
    /\ guild_games = [g \in Guilds |-> NoToggles]
    /\ season_cache = {}
    /\ create_fault \in BOOLEAN
    /\ pc = "idle"
    /\ seasons = <<>>
    /\ gq = <<>>
    /\ si = 0
    /\ game_toggles = NoToggles
    /\ pnow = 0
    /\ events = <<>>
    /\ log = <<>>
    /\ calls = {}
    /\ steady = FALSE
    /\ last = NoLast
    /\ cmds = 0
    /\ probe = NoProbe
    /\ faulted = {}
    /\ config = "ok"
    /\ ClientInit

(***************************************************************************)
(* database/__init__.py                                                    *)
(***************************************************************************)
\* the notifications_enabled value get_guild_settings returns
get_guild_settings(settings, g) == IF settings[g] = NoRow THEN 1 ELSE settings[g]

\* the table after get_guild_settings (INSERT OR IGNORE of the default row)
ensure_guild_row(settings, g) ==
    IF settings[g] = NoRow THEN [settings EXCEPT ![g] = 1] ELSE settings

set_guild_enabled_all(settings, g, enabled) == [h \in DOMAIN settings |-> enabled]

set_guild_enabled(settings, g, enabled) == [settings EXCEPT ![g] = enabled]

get_guild_games(games, g) == games[g]

set_guild_game(games, g, slug, enabled) == [games EXCEPT ![g][slug] = enabled]

is_season_seen_blind(cache, g, slug, key) == FALSE

is_season_seen(cache, g, slug, key) == <<g, slug, key>> \in cache

mark_season_seen_replace(cache, g, slug, key) == {<<g, slug, key>>}

mark_season_seen(cache, g, slug, key) == cache \cup {<<g, slug, key>>}


(***************************************************************************)
(* cogs/arpg_timeline.py: the guild decision engine                        *)
(***************************************************************************)
Triple(g, s) == <<g, s.game_slug, s.season_key>>

NotificationsEnabled_always(enabled) == TRUE

\* int(settings["notifications_enabled"]) == 1
NotificationsEnabled(enabled) == enabled = 1

ToggleOn_default_on(toggles, slug) ==
    slug \in DOMAIN toggles => toggles[slug] # 0

\* game_toggles.get(s.game_slug, 0), for a slug outside the table too
ToggleOn(toggles, slug) ==
    /\ slug \in DOMAIN toggles
    /\ toggles[slug] # NoRow
    /\ toggles[slug] # 0

IsUpcoming_anystart(s, n) == s.starts_at # NoTime

IsUpcoming_inclusive(s, n) == s.starts_at # NoTime /\ s.starts_at >= n

IsUpcoming_unknown(s, n) == s.starts_at = NoTime \/ s.starts_at > n

IsUpcoming(s, n) == s.starts_at # NoTime /\ s.starts_at > n

IsBootstrap(s, n) ==
    /\ ~IsUpcoming(s, n)
    /\ s.starts_at # NoTime
    /\ n - s.starts_at > Day

\* the branch the loop body of _process_guild takes for season s
Decide(toggles, cache, g, s, n) ==
    IF ~ToggleOn(toggles, s.game_slug) THEN "skip_toggle"
    ELSE IF is_season_seen(cache, g, s.game_slug, s.season_key) THEN "skip_seen"
    ELSE IF IsBootstrap(s, n) THEN "bootstrap_mark"
    ELSE IF IsUpcoming(s, n) THEN "create_event"
    ELSE "mark_started"

\* what _create_event_for_season can run into, given the event system's condition
Outcomes(s, n, fault) ==
    IF s.starts_at = NoTime \/ s.starts_at <= n THEN {"not_future"}
    ELSE IF fault THEN {"member_not_found", "missing_permission", "raised", "created"}
    ELSE {"created"}

Created_unchecked(outcome) == outcome \notin {"not_future", "raised"}

\* the boolean _create_event_for_season returns
Created(outcome) == outcome = "created"

SeenAfterCreate_unmarked(cache, g, s, created) == cache

SeenAfterCreate_always(cache, g, s, created) ==
    mark_season_seen(cache, g, s.game_slug, s.season_key)

\* the season_cache table after lines 110-120, given the result of the creation
SeenAfterCreate(cache, g, s, created) ==
    IF created THEN mark_season_seen(cache, g, s.game_slug, s.season_key) ELSE cache

CountEvent(ev, t) ==
    IF t \in DOMAIN ev
    THEN [ev EXCEPT ![t] = IF @ < EventCap THEN @ + 1 ELSE @]
    ELSE (t :> 1) @@ ev

LogCreate(s, outcome) ==
    [op |-> "create", slug |-> s.game_slug, key |-> s.season_key, outcome |-> outcome]
LogMark(s, why) ==
    [op |-> "mark", slug |-> s.game_slug, key |-> s.season_key, outcome |-> why]

PollStart_no_return ==
    /\ pc = "idle"
    /\ \E resp \in Responses :
         LET fetched == fetch_active_seasons(resp)
         IN  /\ pc' = "guild"
             /\ seasons' = fetched
             /\ gq' = GuildOrder
             /\ steady' = TRUE
             /\ last' = IF last.seasons = fetched THEN last ELSE NoLast
    /\ UNCHANGED <<now, dbvars, create_fault, si, game_toggles, pnow, events, log, calls,
                   cmds, probe, faulted, apivars>>

\* poll_seasons_task up to the guild loop: fetch the season list, return when it is empty
PollStart ==
    /\ pc = "idle"
    /\ \E resp \in Responses :
         LET fetched == fetch_active_seasons(resp)
         IN  IF fetched = <<>>
             THEN UNCHANGED <<pc, seasons, gq, steady, last>>
             ELSE /\ pc' = "guild"
                  /\ seasons' = fetched
                  /\ gq' = GuildOrder
                  /\ steady' = TRUE
                  /\ last' = IF last.seasons = fetched THEN last ELSE NoLast
    /\ UNCHANGED <<now, dbvars, create_fault, si, game_toggles, pnow, events, log, calls,
                   cmds, probe, faulted, apivars>>

\* _process_guild, lines 70-77: settings, the enabled gate, the toggles, now
GuildStart ==
    /\ pc = "guild"
    /\ gq # <<>>
    /\ LET g == Head(gq)
       IN  /\ guild_settings' = ensure_guild_row(guild_settings, g)
           /\ IF NotificationsEnabled(get_guild_settings(guild_settings, g))
              THEN /\ game_toggles' = get_guild_games(guild_games, g)
                   /\ pnow' = now
                   /\ si' = 1
                   /\ pc' = "season"
                   /\ UNCHANGED gq
              ELSE /\ gq' = Tail(gq)
                   /\ UNCHANGED <<pc, si, game_toggles, pnow>>
    /\ UNCHANGED <<now, guild_games, season_cache, create_fault, seasons, histvars, cmds, probe, faulted, apivars>>

\* one iteration of the season loop, up to the call of _create_event_for_season
SeasonStep ==
    /\ pc = "season"
    /\ si <= Len(seasons)
    /\ LET g == Head(gq)
           s == seasons[si]
           d == Decide(game_toggles, season_cache, g, s, pnow)
       IN  CASE d \in {"skip_toggle", "skip_seen"} ->
                  /\ si' = si + 1
                  /\ UNCHANGED <<pc, season_cache, log>>
             [] d \in {"bootstrap_mark", "mark_started"} ->
                  /\ season_cache' = mark_season_seen(season_cache, g, s.game_slug, s.season_key)
                  /\ log' = Append(log, LogMark(s, d))
                  /\ si' = si + 1
                  /\ UNCHANGED pc
             [] OTHER ->
                  /\ pc' = "create"
                  /\ UNCHANGED <<si, season_cache, log>>
    /\ UNCHANGED <<now, guild_settings, guild_games, create_fault, seasons, gq, game_toggles,
                   pnow, events, calls, steady, last, cmds, probe, faulted, apivars>>

\* _create_event_for_season, and the branch of _process_guild on its result
CreateEvent ==
    /\ pc = "create"
    /\ LET g == Head(gq)
           s == seasons[si]
       IN  \E outcome \in Outcomes(s, now, create_fault) :
             /\ log' = Append(log, LogCreate(s, outcome))
             /\ calls' = IF steady
                         THEN calls \cup {<<g, s.game_slug, s.season_key, Created(outcome)>>}
                         ELSE calls
             /\ events' = IF outcome = "created" THEN CountEvent(events, Triple(g, s)) ELSE events
             /\ IF Created(outcome)
                THEN pc' = "mark" /\ UNCHANGED <<si, season_cache>>
                ELSE /\ pc' = "season"
                     /\ si' = si + 1
                     /\ season_cache' = SeenAfterCreate(season_cache, g, s, FALSE)
    /\ UNCHANGED <<now, guild_settings, guild_games, create_fault, seasons, gq, game_toggles,
                   pnow, steady, last, cmds, probe, faulted, apivars>>

\* _process_guild, line 111: mark the season seen after the event was created
MarkCreated ==
    /\ pc = "mark"
    /\ LET g == Head(gq)
           s == seasons[si]
       IN  /\ season_cache' = SeenAfterCreate(season_cache, g, s, TRUE)
           /\ log' = IF Triple(g, s) \in season_cache'
                     THEN Append(log, LogMark(s, "event_created")) ELSE log
    /\ pc' = "season"
    /\ si' = si + 1
    /\ UNCHANGED <<now, guild_settings, guild_games, create_fault, seasons, gq, game_toggles,
                   pnow, events, calls, steady, last, cmds, probe, faulted, apivars>>

\* the season loop of _process_guild is over: on to the next guild
GuildEnd ==
    /\ pc = "season"
    /\ si > Len(seasons)
    /\ gq' = Tail(gq)
    /\ pc' = "guild"
    /\ si' = 0
    /\ game_toggles' = NoToggles
    /\ pnow' = 0
    /\ log' = <<>>
    /\ UNCHANGED <<now, dbvars, create_fault, seasons, events, calls, steady, last,
                   cmds, probe, faulted, apivars>>

\* the guild loop of poll_seasons_task is over
PollEnd ==
    /\ pc = "guild"
    /\ gq = <<>>
    /\ pc' = "idle"
    /\ seasons' = <<>>
    /\ last' = IF steady THEN [seasons |-> seasons, calls |-> calls] ELSE NoLast
    /\ calls' = {}
    /\ steady' = FALSE
    /\ faulted' = {}
    /\ UNCHANGED <<now, dbvars, create_fault, gq, si, game_toggles, pnow, events, log,
                   cmds, probe, apivars>>

(***************************************************************************)
(* Slash commands and the environment.                                     *)
(***************************************************************************)
\* bookkeeping: a change from outside ends the comparison of successive cycles
Disturb ==
    /\ steady' = FALSE
    /\ last' = NoLast
    /\ calls' = {}

\* /arpg-enable
SetEnabled(g, enabled) ==
    /\ cmds < MaxCmds
    /\ cmds' = cmds + 1
    /\ guild_settings' = set_guild_enabled(guild_settings, g, enabled)
    /\ Disturb
    /\ UNCHANGED <<now, guild_games, season_cache, create_fault, pollvars,
                   events, log, probe, faulted, apivars>>

\* /arpg-toggle-game: the select callback and the enable-all / disable-all buttons
ToggleGame(g, slug, enabled) ==
    /\ cmds < MaxCmds
    /\ cmds' = cmds + 1
    /\ guild_games' = set_guild_game(guild_games, g, slug, enabled)
    /\ Disturb
    /\ UNCHANGED <<now, guild_settings, season_cache, create_fault, pollvars,
                   events, log, probe, faulted, apivars>>

Tick ==
    /\ now < MaxTime
    /\ now' = now + 1
    /\ UNCHANGED <<dbvars, create_fault, pollvars, histvars, cmds, probe, faulted, apivars>>

\* the bot's member, its permissions and the event endpoint change outside the program
EventSystemChange ==
    /\ create_fault' = ~create_fault
    /\ Disturb
    /\ UNCHANGED <<now, dbvars, pollvars, events, log, cmds, probe, faulted, apivars>>

AfterFault_abort(q) == <<>>

\* the guild loop after `except Exception` has logged the fault: the guilds left
AfterFault(q) == Tail(q)

\* a database call of _process_guild raises: get_guild_settings or
\* get_guild_games, is_season_seen or mark_season_seen of a season whose game
\* is on, mark_season_seen after the event was created; the guild loop logs
\* the exception and goes on
StoreFault ==
    /\ \/ pc = "guild" /\ gq # <<>>
       \/ pc = "season" /\ si <= Len(seasons) /\ ToggleOn(game_toggles, seasons[si].game_slug)
       \/ pc = "mark"
    /\ faulted' = faulted \cup {Head(gq)}
    /\ gq' = AfterFault(gq)
    /\ pc' = "guild"
    /\ si' = 0
    /\ game_toggles' = NoToggles
    /\ pnow' = 0
    /\ log' = <<>>
    /\ Disturb
    /\ UNCHANGED <<now, dbvars, create_fault, seasons, events, cmds, probe, apivars>>

\* cog_unload cancels the poll task at the await it is suspended in
Cancel ==
    /\ pc # "idle"
    /\ pc' = "idle"
    /\ seasons' = <<>>
    /\ gq' = <<>>
    /\ si' = 0
    /\ game_toggles' = NoToggles
    /\ pnow' = 0
    /\ log' = <<>>
    /\ faulted' = {}
    /\ Disturb
    /\ UNCHANGED <<now, dbvars, create_fault, events, cmds, probe, apivars>>

Poll == PollStart \/ GuildStart \/ SeasonStep \/ CreateEvent \/ MarkCreated \/ GuildEnd \/ PollEnd

Next ==
    \/ PollStart
    \/ GuildStart
    \/ SeasonStep
    \/ CreateEvent
    \/ MarkCreated
    \/ GuildEnd
    \/ PollEnd
    \/ \E g \in Guilds, enabled \in {0, 1} : SetEnabled(g, enabled)
    \/ \E g \in Guilds, slug \in Slugs, enabled \in {0, 1} : ToggleGame(g, slug, enabled)
    \/ Tick
    \/ EventSystemChange

Spec == Init /\ [][Next]_vars

\* the engine over a database whose calls can raise
NextFault == Next \/ StoreFault

SpecFault == Init /\ [][NextFault]_vars

\* the engine with the poll task cancelled and started again
NextCancel == Next \/ Cancel

SpecCancel == Init /\ [][NextCancel]_vars


(***************************************************************************)
(* The season builders on their own: one block read as 'current' and as    *)
(* 'next'.                                                                 *)
(***************************************************************************)
FieldValues == {JNull, JStr(""), JStr("A"), JStr("B"), JInt(0), JInt(7)}
StartValues == {JNull, JStr(""), JStr("tba"), JInt(5), JIso(0), JIso(2), JIsoNaive(2)}
ProbeBlocks ==
    [name : FieldValues, id : FieldValues, slug : FieldValues, code : FieldValues,
     start : StartValues]

InitKey ==
    /\ now = 0
    /\ guild_settings = [g \in Guilds |-> NoRow]
    /\ guild_games = [g \in Guilds |-> NoToggles]
    /\ season_cache = {}
    /\ create_fault = FALSE
    /\ pc = "idle"
    /\ seasons = <<>>
    /\ gq = <<>>
    /\ si = 0
    /\ game_toggles = NoToggles
    /\ pnow = 0
    /\ events = <<>>
    /\ log = <<>>
    /\ calls = {}
    /\ steady = FALSE
    /\ last = NoLast
    /\ cmds = 0
    /\ \E b \in ProbeBlocks : probe = [NoProbe EXCEPT !.block = b]
    /\ faulted = {}
    /\ config = "ok"
    /\ ClientInit

\* the same block handed to both builders
BuildSeasons ==
    /\ ~probe.done
    /\ probe' = [probe EXCEPT
                   !.cur = current_season_from_entry(
                               [game |-> JStr("poe2"), current |-> JDict(probe.block),
                                next |-> JAbsent]),
                   !.nxt = next_season_from_entry(
                               [game |-> JStr("poe2"), current |-> JAbsent,
                                next |-> JDict(probe.block)]),
                   !.done = TRUE]
    /\ UNCHANGED <<now, dbvars, create_fault, pollvars, histvars, cmds, faulted, apivars>>

NextKey == BuildSeasons

SpecKey == InitKey /\ [][NextKey]_vars

(***************************************************************************)
(* Properties.                                                             *)
(***************************************************************************)
SameTriple(a, b) == a[1] = b[1] /\ a[2] = b[2] /\ a[3] = b[3]

\* the running _process_guild has left its season loop
PassDone == pc = "season" /\ si > Len(seasons)

\* C1: at most one event is successfully created per (guild_id, game_slug,
\* season_key), whatever the poll cycles fetch and however creation fails.
C1_AtMostOneEvent == \A t \in DOMAIN events : events[t] <= 1

\* an event exists for the triple and the loop has reached a second record of it
C1_Witness ==
    /\ pc = "season"
    /\ si <= Len(seasons)
    /\ Triple(Head(gq), seasons[si]) \in DOMAIN events
    /\ \E i \in 1..(si - 1) : seasons[i] = seasons[si]

RECURSIVE FirstNonEmpty(_)
FirstNonEmpty(fields) ==
    IF fields = <<>> THEN ""
    ELSE IF Truthy(Head(fields)) THEN PyStr(Head(fields))
    ELSE FirstNonEmpty(Tail(fields))

ExpectedKey(block) ==
    LET base == FirstNonEmpty(<<block.name, block.id, block.slug, block.code>>)
        start == to_dt(block.start)
    IN  IF start = NoTime THEN base ELSE base \o ":" \o ToString(start)

\* C2: a block read as 'current' and the same block read as 'next' get the same
\* season_key: the first non-empty of name, id, slug, code, followed by
\* ":<epoch-seconds>" exactly when the start is known; both builders yield no
\* record exactly when that key is empty.
C2_SameKey ==
    probe.done =>
        /\ probe.cur.season_key = probe.nxt.season_key
        /\ probe.cur.season_key = ExpectedKey(probe.block)
        /\ (probe.cur = NoSeason) <=> (ExpectedKey(probe.block) = "")
        /\ (probe.nxt = NoSeason) <=> (ExpectedKey(probe.block) = "")
        /\ probe.cur = probe.nxt

\* both builders built a record from a fallback field and a known start
C2_Witness ==
    /\ probe.done
    /\ ~Truthy(probe.block.name)
    /\ Truthy(probe.block.slug)
    /\ to_dt(probe.block.start) # NoTime
    /\ probe.cur # NoSeason
    /\ probe.nxt.season_key = "B:2"


\* the season record the running loop handled last
Handled == seasons[si - 1]

\* C3 as stated: in a cycle that repeats the one before (same season list, nothing
\* changed in between), no season for which the first pass called event creation
\* gets an event-creation call in the second pass.
C3_NoRepeatedCall ==
    \A c \in calls : \A p \in last.calls : ~SameTriple(c, p)

\* C3: in a cycle that repeats the one before, no season for which the first
\* pass's event creation succeeded gets an event-creation call in the second
\* pass; only a season whose creation failed is called again.
C3_NoCallAfterSuccess ==
    \A c \in calls : \A p \in last.calls : SameTriple(c, p) => ~p[4]

\* the second pass has gone past a season the first pass created an event for
C3_Witness ==
    /\ pc = "season"
    /\ si > 1
    /\ steady
    /\ \E p \in last.calls :
         /\ p[4]
         /\ p = <<Head(gq), Handled.game_slug, Handled.season_key, TRUE>>
    /\ calls = {}

\* the calls of the cycle before that failed and left the triple unseen
FailedBefore(g) ==
    { p \in last.calls :
        /\ p[1] = g
        /\ ~p[4]
        /\ ~\E q \in last.calls : SameTriple(p, q) /\ q[4] }

\* C4: a season whose event creation returns failure is not added to the
\* seen-set by that call, and the next poll cycle (guild still enabled, game
\* still toggled on, season still listed and still upcoming) calls event
\* creation for it again.
C4_RetryAfterFailure ==
    /\ [][(pc = "create" /\ pc' = "season") => season_cache' = season_cache]_vars
    /\ [](\A p \in last.calls : ~p[4] /\ pc = "idle" =>
              (<<p[1], p[2], p[3]>> \in season_cache =>
                   \E q \in last.calls : SameTriple(p, q) /\ q[4]))
    /\ [](PassDone =>
            \A p \in FailedBefore(Head(gq)) :
                (\E i \in 1..Len(seasons) :
                    /\ seasons[i].game_slug = p[2]
                    /\ seasons[i].season_key = p[3]
                    /\ seasons[i].starts_at # NoTime
                    /\ seasons[i].starts_at > pnow)
                => \E c \in calls : SameTriple(c, p))

\* the second pass has called event creation again for a season that failed before
C4_Witness ==
    /\ PassDone
    /\ \E p \in FailedBefore(Head(gq)) :
         /\ <<p[1], p[2], p[3]>> \notin season_cache
         /\ \E c \in calls : SameTriple(c, p) /\ ~c[4]


\* the poll task runs every five minutes and each of its awaits returns
LiveSpec == Init /\ [][Next]_vars /\ WF_vars(Poll)

\* the season the catalog announces ahead of its start
Announced == next_season_from_entry(EntryNext)

Listed(s) == \E i \in 1..Len(seasons) : seasons[i] = s

\* from here on guild g stays enabled with the game on, the season stays listed
\* and upcoming, and event creation succeeds
Healed(g) ==
    /\ guild_settings[g] # 0
    /\ guild_games[g][Announced.game_slug] = 1
    /\ Announced.starts_at > now
    /\ pc # "idle" => Listed(Announced)
    /\ ~create_fault

\* C5: if a guild stays enabled with the game toggled on, the season stays in
\* the fetched list and upcoming, polling keeps running and event creation
\* succeeds from some point on, then eventually an event exists for the season
\* and its triple is in the seen-set.
C5_SelfHealing ==
    \A g \in Guilds :
        <>[]Healed(g) =>
            <>(/\ Triple(g, Announced) \in season_cache
               /\ Triple(g, Announced) \in DOMAIN events)

\* a creation for the season failed, the event system recovered, and the same pass
\* then created the event and marked the season seen
C5_Witness ==
    /\ pc = "season"
    /\ Healed(Head(gq))
    /\ Triple(Head(gq), Announced) \in season_cache
    /\ Triple(Head(gq), Announced) \in DOMAIN events
    /\ \E i, j \in 1..Len(log) :
         /\ i < j
         /\ log[i].op = "create"
         /\ log[i].key = Announced.season_key
         /\ log[i].outcome \in {"member_not_found", "missing_permission", "raised"}
         /\ log[j].op = "mark"
         /\ log[j].key = Announced.season_key

\* C6: for an unseen upcoming season of an enabled guild with the game on, a pass
\* whose event creation succeeds calls event creation exactly once and mark-seen
\* exactly once for the triple, the creation right before the mark.
C6_CreateThenMarkOnce ==
    PassDone =>
        \A i \in 1..Len(log) :
            (log[i].op = "create" /\ log[i].outcome = "created") =>
                /\ i < Len(log)
                /\ log[i + 1].op = "mark"
                /\ log[i + 1].slug = log[i].slug
                /\ log[i + 1].key = log[i].key
                /\ \A j \in 1..Len(log) :
                       (log[j].slug = log[i].slug /\ log[j].key = log[i].key) =>
                           \/ j = i
                           \/ j = i + 1
                           \/ j < i /\ log[j].op = "create" /\ log[j].outcome # "created"

\* a pass over a list naming the season twice created its event and marked it, once each
C6_Witness ==
    /\ PassDone
    /\ Len(seasons) = 2
    /\ seasons[1] = seasons[2]
    /\ Len(log) = 2
    /\ log[1].op = "create"
    /\ log[1].outcome = "created"
    /\ log[2].op = "mark"
    /\ Triple(Head(gq), seasons[1]) \in season_cache

\* SeasonStep handles a record of an enabled guild whose toggle is on and whose
\* triple is unseen
HandlesUnseen ==
    /\ pc = "season"
    /\ si <= Len(seasons)
    /\ <<pc, si>>' # <<pc, si>>
    /\ game_toggles[seasons[si].game_slug] = 1
    /\ Triple(Head(gq), seasons[si]) \notin season_cache

MarkedSilently ==
    /\ season_cache' = season_cache \cup {Triple(Head(gq), seasons[si])}
    /\ pc' = "season"
    /\ si' = si + 1
    /\ events' = events
    /\ calls' = calls

\* C7: an unseen season of an enabled guild with the game on whose known start is
\* more than one day before now is added to the seen-set by that pass, and event
\* creation is never called for it.
C7_BootstrapSuppression ==
    /\ [][(/\ HandlesUnseen
           /\ seasons[si].starts_at # NoTime
           /\ pnow - seasons[si].starts_at > Day) => MarkedSilently]_vars
    /\ [](pc \in {"create", "mark"} =>
            /\ Triple(Head(gq), seasons[si]) \notin season_cache
            /\ ~(seasons[si].starts_at # NoTime /\ pnow - seasons[si].starts_at > Day))

\* the pass has just marked a season that started more than a day ago
C7_Witness ==
    /\ pc = "season"
    /\ si > 1
    /\ Handled.starts_at # NoTime
    /\ pnow - Handled.starts_at > Day
    /\ Len(log) > 0
    /\ log[Len(log)] = LogMark(Handled, "bootstrap_mark")
    /\ Triple(Head(gq), Handled) \in season_cache
    /\ Triple(Head(gq), Handled) \notin DOMAIN events


\* C8: when a guild's notifications_enabled is false, the poll cycle passes the
\* guild over: no event, no seen-set entry, and neither its toggles nor the
\* seen-set are read for it.
C8_DisabledGuildSkipped ==
    /\ [][(/\ pc = "guild"
           /\ gq # <<>>
           /\ guild_settings[Head(gq)] = 0
           /\ gq' # gq)
          => /\ gq' = Tail(gq)
             /\ pc' = "guild"
             /\ UNCHANGED <<guild_settings, guild_games, season_cache, events, calls, log,
                            game_toggles, pnow, si>>]_vars
    /\ [](\A g \in Guilds :
            (pc # "idle" /\ steady /\ guild_settings[g] = 0) =>
                /\ (gq # <<>> /\ Head(gq) = g) => pc = "guild"
                /\ \A c \in calls : c[1] # g)

\* the cycle has passed over a disabled guild that has the listed, upcoming, unseen
\* season's game toggled on
C8_Witness ==
    /\ pc = "guild"
    /\ gq = <<2>>
    /\ steady
    /\ guild_settings[1] = 0
    /\ guild_games[1][Announced.game_slug] = 1
    /\ Listed(Announced)
    /\ Announced.starts_at > now
    /\ Triple(1, Announced) \notin season_cache
    /\ Triple(1, Announced) \notin DOMAIN events

\* C9: a season whose game has no toggle row for the guild, or a toggle set to
\* disabled, gets no event and no seen-set entry; a guild that never stored a
\* toggle gets no event and no seen-set entry from any poll cycle.
C9_PerGameOptIn ==
    /\ [][(/\ pc = "season"
           /\ si <= Len(seasons)
           /\ <<pc, si>>' # <<pc, si>>
           /\ game_toggles[seasons[si].game_slug] \in {NoRow, 0})
          => /\ pc' = "season"
             /\ si' = si + 1
             /\ UNCHANGED <<season_cache, events, calls, log>>]_vars
    /\ [](\A t \in season_cache \cup DOMAIN events : guild_games[t[1]][t[2]] # NoRow)
    /\ [](pc \in {"create", "mark"} => game_toggles[seasons[si].game_slug] = 1)

\* the pass has skipped a season of a game toggled off, in a guild that has the
\* other game on
C9_Witness ==
    /\ pc = "season"
    /\ si > 1
    /\ game_toggles[Handled.game_slug] = 0
    /\ \E slug \in Slugs : game_toggles[slug] = 1
    /\ guild_settings[Head(gq)] = 1
    /\ Triple(Head(gq), Handled) \notin season_cache
    /\ Triple(Head(gq), Handled) \notin DOMAIN events

\* C10: an unseen season of an enabled guild with the game on that has already
\* started within the last day is added to the seen-set by that pass without an
\* event-creation call; event creation is reached only for a start strictly in
\* the future.
C10_StartedMarkedSilently ==
    /\ [][(/\ HandlesUnseen
           /\ seasons[si].starts_at # NoTime
           /\ seasons[si].starts_at <= pnow
           /\ pnow - seasons[si].starts_at <= Day) => MarkedSilently]_vars
    /\ [](pc \in {"create", "mark"} =>
            /\ seasons[si].starts_at # NoTime
            /\ seasons[si].starts_at > pnow)
    /\ [][events' # events =>
            /\ pc = "create"
            /\ seasons[si].starts_at # NoTime
            /\ seasons[si].starts_at > now]_vars

\* the pass has just marked a season that started within the last day
C10_Witness ==
    /\ pc = "season"
    /\ si > 1
    /\ Handled.starts_at # NoTime
    /\ Handled.starts_at <= pnow
    /\ pnow - Handled.starts_at <= Day
    /\ Len(log) > 0
    /\ log[Len(log)] = LogMark(Handled, "mark_started")
    /\ Triple(Head(gq), Handled) \in season_cache
    /\ Triple(Head(gq), Handled) \notin DOMAIN events


(***************************************************************************)
(* database/__init__.py: the tables api_tokens and api_cache.              *)
(***************************************************************************)
\* the row (None, None) of a key that is not stored
NoneRow == [token |-> "", expires_at |-> JNull]

get_api_token(tokens, key) == IF key \in DOMAIN tokens THEN tokens[key] ELSE NoneRow

\* INSERT ... ON CONFLICT(key) DO UPDATE
set_api_token(tokens, key, token, expires_at_iso) ==
    (key :> [token |-> token, expires_at |-> expires_at_iso]) @@ tokens

\* the ORDER BY of get_latest_api_token: rows with an expiry first, then by
\* datetime(expires_at) descending, which is NULL for a text that is no date
ExpiryRank(row) ==
    CASE row.expires_at.k = "iso" -> row.expires_at.n
      [] row.expires_at.k = "null" -> 0 - 2
      [] OTHER -> 0 - 1

\* the rows get_latest_api_token can return (SQLite breaks a tie either way)
get_latest_api_token(tokens) ==
    LET held == {k \in DOMAIN tokens : tokens[k].token # ""}
        best == {k \in held : \A j \in held : ExpiryRank(tokens[k]) >= ExpiryRank(tokens[j])}
    IN  IF held = {} THEN {NoneRow} ELSE {tokens[k] : k \in best}

NoneEntry == [value |-> [k |-> "null", items |-> <<>>], expires_at |-> JNull]

get_api_cache(cache, key) == IF key \in DOMAIN cache THEN cache[key] ELSE NoneEntry

set_api_cache(cache, key, value_json, expires_at_iso) ==
    (key :> [value |-> value_json, expires_at |-> expires_at_iso]) @@ cache

(***************************************************************************)
(* services/arpg_api.py: the token manager.                                *)
(***************************************************************************)
\* datetime.isoformat() of an aware UTC datetime
isoformat(t) == [k |-> "iso", s |-> "+00:00", n |-> t]

\* datetime.fromisoformat of a stored expiry, None when it does not parse
parse_expiry(exp_iso) == IF exp_iso.k = "iso" THEN exp_iso.n ELSE NoTime

Valid_inclusive(exp, n) == exp # NoTime /\ exp - n >= Margin

\* valid(exp) of _get_access_token
Valid(exp, n) == exp # NoTime /\ exp - n > Margin

BackoffActive_ignored(fail_until, n) == FALSE

\* self._token_fail_until and now < self._token_fail_until
BackoffActive(fail_until, n) == fail_until # NoTime /\ n < fail_until

FailUntil_short(n) == n + Margin

\* now + timedelta(minutes=10)
FailUntil(n) == n + Backoff

\* the row the three lookups end with: specific -> legacy -> latest
Lookup(tokens, latest) ==
    LET specific == get_api_token(tokens, token_key)
        legacy == IF specific.token = "" THEN get_api_token(tokens, LegacyKey) ELSE specific
    IN  IF legacy.token = "" THEN latest ELSE legacy

\* token and exp_iso, and the parsed expiry clears the margin
Recoverable(row, n) ==
    /\ row.token # ""
    /\ Truthy(row.expires_at)
    /\ Valid(parse_expiry(row.expires_at), n)

\* what the token endpoint can answer a POST with
PostOutcomes == {"non200", "exception", "no_token", "expires_in", "no_expiry"}
PostOk(outcome) == outcome \in {"expires_in", "no_expiry"}

\* the expires_in the token endpoint sends: 90 seconds
ExpiresIn == 3

\* the expiry _fetch_token computes from the response received at time n
FetchedExpiry(outcome, n) == IF outcome = "expires_in" THEN n + ExpiresIn ELSE n + Hour

TokenName(i) == "t" \o ToString(i)

(***************************************************************************)
(* services/arpg_api.py: payloads, their normalisation and the cache form. *)
(***************************************************************************)
Strip(x) == CASE x = " poe2 " -> "poe2" [] x = " " -> "" [] OTHER -> x
Title(x) == CASE x = "poe2" -> "Poe2" [] x = "d4" -> "D4" [] OTHER -> x

NoGame == [slug |-> "", name |-> ""]

normalize_game(raw) ==
    LET slug == Strip(PyStr(PyOr(raw.slug, JStr(""))))
        name == Strip(PyStr(PyOr(raw.name, JStr(Title(slug)))))
    IN  IF slug = "" THEN NoGame ELSE [slug |-> slug, name |-> name]

RawPoe == [k |-> "dict", slug |-> JStr(" poe2 "), name |-> JNull]
RawNoSlug == [k |-> "dict", slug |-> JNull, name |-> JStr("x")]
RawNotDict == [k |-> "str", slug |-> JNull, name |-> JNull]
RawBlank == [k |-> "dict", slug |-> JStr("d4"), name |-> JStr(" ")]
EntryNotDict == [k |-> "str", game |-> JNull, current |-> JAbsent, next |-> JAbsent]

\* the bodies a 200 response of /games and of /games/seasons can carry
GameData ==
    { [shape |-> "dict", items |-> <<RawPoe>>],
      [shape |-> "list", items |-> <<RawNoSlug, RawPoe>>],
      [shape |-> "dict", items |-> <<>>],
      [shape |-> "other", items |-> <<RawPoe>>],
      [shape |-> "list", items |-> <<RawPoe, RawNotDict>>],
      [shape |-> "list", items |-> <<RawBlank>>] }
SeasonData ==
    { [shape |-> "dict", items |-> <<EntryNext>>],
      [shape |-> "list", items |-> <<EntryD, EntryBad, EntryNext>>],
      [shape |-> "list", items |-> <<>>],
      [shape |-> "other", items |-> <<EntryNext>>],
      [shape |-> "list", items |-> <<EntryNext, EntryNotDict>>] }

\* items of a response body: data["games"] / data["seasons"], a bare list, else []
Items(data) == IF data.shape \in {"dict", "list"} THEN data.items ELSE <<>>

RECURSIVE NormalizeGames(_, _)
NormalizeGames(items, out) ==
    IF items = <<>> THEN out
    ELSE LET g == normalize_game(Head(items))
         IN  NormalizeGames(Tail(items), IF g # NoGame THEN Append(out, g) ELSE out)

\* raw.get(...) / entry.get(...) of an item that is no dict raises
ItemRaises(res, items) ==
    \E i \in 1..Len(items) : ("k" \in DOMAIN items[i]) /\ items[i].k # "dict"

\* the list fetch_games / fetch_active_seasons builds from a response body
Parsed(res, data) ==
    IF res = "games" THEN NormalizeGames(Items(data), <<>>)
    ELSE fetch_active_seasons(Items(data))

\* json.dumps of the list written to the cache
DumpItem(res, x) ==
    IF res = "games"
    THEN [k |-> "dict", slug |-> JStr(x.slug), name |-> JStr(x.name)]
    ELSE [game_slug |-> x.game_slug, season_key |-> x.season_key,
          starts_at |-> IF x.starts_at # NoTime THEN isoformat(x.starts_at) ELSE JNull]

Dump(res, list) == [k |-> "list", items |-> [i \in 1..Len(list) |-> DumpItem(res, list[i])]]

LoadSeason(obj) ==
    [game_slug |-> obj.game_slug, season_key |-> obj.season_key,
     starts_at |-> IF Truthy(obj.starts_at) THEN to_dt(obj.starts_at) ELSE NoTime]

\* an item of a stored value on which .get(...) works
IsDict(x) == ("k" \in DOMAIN x) => x.k = "dict"

\* json.loads, or the loop over its result, raises inside the cache read:
\* invalid JSON, a value that cannot be iterated, and for games an item
\* that is no dict (for seasons such an item is skipped by `continue`)
LoadRaises(res, value) ==
    \/ value.k \notin {"list", "dict"}
    \/ res = "games" /\ \E i \in 1..Len(value.items) : ~IsDict(value.items[i])

RECURSIVE LoadSeasons(_, _)
LoadSeasons(items, out) ==
    IF items = <<>> THEN out
    ELSE LoadSeasons(Tail(items),
                     IF IsDict(Head(items)) THEN Append(out, LoadSeason(Head(items)))
                     ELSE out)

\* the list a cache hit rebuilds from the stored value
Load(res, value) ==
    IF res = "games" THEN NormalizeGames(value.items, <<>>)
    ELSE LoadSeasons(value.items, <<>>)

Fresh_inclusive(entry, n) ==
    /\ entry.value.k # "null"
    /\ Truthy(entry.expires_at)
    /\ parse_expiry(entry.expires_at) # NoTime
    /\ parse_expiry(entry.expires_at) >= n

\* value_json and exp_iso, the expiry parses and exp_dt > now
Fresh(entry, n) ==
    /\ entry.value.k # "null"
    /\ Truthy(entry.expires_at)
    /\ parse_expiry(entry.expires_at) # NoTime
    /\ parse_expiry(entry.expires_at) > n

ApiFns == {"fetch_games", "fetch_active_seasons", "get_cached_games",
           "get_cached_active_seasons"}
Cached == {"get_cached_games", "get_cached_active_seasons"}
Resource(fn) == IF fn \in {"fetch_games", "get_cached_games"} THEN "games" ELSE "seasons"
CacheKey(res) == IF res = "games" THEN "games:list" ELSE "seasons:active"

\* ttl_minutes of a cached call: one minute
Ttls == {2}

\* the wrapper's reading of the clock: get_cached_active_seasons reads it once on
\* entry, get_cached_games where it uses it
WrapperNow(c) == IF c.res = "seasons" THEN c.wnow ELSE utc

(***************************************************************************)
(* services/arpg_api.py: one API call at a time, one step per await.       *)
(* A request takes less than the clock's unit (ClientTimeout(total=15)),   *)
(* so the clock moves between the calls.                                   *)
(***************************************************************************)
EntryPoint_ignores_force(fn, force) == IF fn \in Cached THEN "cache_read" ELSE "fetch"

\* where a call begins: the wrappers at their cache read, unless force_refresh
EntryPoint(fn, force) == IF fn \in Cached /\ ~force THEN "cache_read" ELSE "fetch"

\* a caller enters fetch_games, fetch_active_seasons or one of the cached wrappers
StartCall(fn, force, ttl) ==
    /\ cl.at = "idle"
    /\ ncalls < MaxCalls
    /\ ncalls' = ncalls + 1
    /\ cl' = [NoCall EXCEPT !.fn = fn, !.res = Resource(fn), !.force = force, !.ttl = ttl,
                            !.wnow = utc,
                            !.at = EntryPoint(fn, force)]
    /\ tr' = [NoTrace EXCEPT !.fn = fn, !.force = force, !.ttl = ttl, !.t0 = utc]
    /\ UNCHANGED <<utc, config, other, clientvars, storevars, issued, failed>>

Return_writes_empty(t, ret, raised) ==
    IF cl.fn \in Cached /\ ~raised
    THEN /\ cl' = [cl EXCEPT !.at = "cache_write"]
         /\ tr' = [t EXCEPT !.ret = ret]
    ELSE /\ cl' = NoCall
         /\ tr' = [t EXCEPT !.ret = ret, !.raised = raised, !.done = TRUE]

\* fetch_games / fetch_active_seasons hand `ret` to their caller, or raise
Return(t, ret, raised) ==
    IF cl.fn \in Cached /\ ~raised /\ ret # <<>>
    THEN /\ cl' = [cl EXCEPT !.at = "cache_write"]
         /\ tr' = [t EXCEPT !.ret = ret]
    ELSE /\ cl' = NoCall
         /\ tr' = [t EXCEPT !.ret = ret, !.raised = raised, !.done = TRUE]

\* the cache read of get_cached_games and get_cached_active_seasons
CacheRead ==
    /\ cl.at = "cache_read"
    /\ \E answers \in BOOLEAN :
         LET entry == get_api_cache(api_cache, CacheKey(cl.res))
             t == [tr EXCEPT !.answered = answers]
         IN  IF answers /\ Fresh(entry, WrapperNow(cl)) /\ ~LoadRaises(cl.res, entry.value)
             THEN /\ cl' = NoCall
                  /\ tr' = [t EXCEPT !.hit = TRUE, !.ret = Load(cl.res, entry.value),
                                     !.done = TRUE]
             ELSE /\ cl' = [cl EXCEPT !.at = "fetch"]
                  /\ tr' = t
    /\ UNCHANGED <<utc, config, other, clientvars, storevars, issued, failed, ncalls>>

\* fetch_games / fetch_active_seasons up to the first _get_access_token
FetchBegin ==
    /\ cl.at = "fetch"
    /\ IF config = "no_api_base"
       THEN Return([tr EXCEPT !.live = TRUE], <<>>, FALSE)
       ELSE /\ cl' = [cl EXCEPT !.at = "tok_check", !.attempt = 1]
            /\ tr' = [tr EXCEPT !.live = TRUE]
    /\ UNCHANGED <<utc, config, other, clientvars, storevars, issued, failed, ncalls>>

\* _get_access_token, lines 196-204: the backoff window and the token in memory
TokCheck ==
    /\ cl.at = "tok_check"
    /\ LET n == utc
           first == failed.t # NoTime /\ ~failed.retried /\ n >= failed.t + Backoff
           c == [cl EXCEPT !.tnow = n, !.first = first, !.ftoken = "", !.fexp = NoTime,
                           !.stored = FALSE, !.read = FALSE]
       IN  /\ failed' = IF first THEN [failed EXCEPT !.retried = TRUE] ELSE failed
           /\ IF BackoffActive(token_fail_until, n)
              THEN cl' = [c EXCEPT !.at = "get", !.token = "", !.src = "backoff"]
              ELSE IF access_token # "" /\ Valid(token_expires_at, n)
              THEN cl' = [c EXCEPT !.at = "get", !.token = access_token, !.src = "memory"]
              ELSE cl' = [c EXCEPT !.at = "tok_db", !.src = "none"]
    /\ UNCHANGED <<utc, config, other, clientvars, storevars, issued, tr, ncalls>>

\* _get_access_token, lines 206-231: the durable lookups
TokDb ==
    /\ cl.at = "tok_db"
    /\ \E answers \in BOOLEAN, latest \in get_latest_api_token(api_tokens) :
         LET row == Lookup(api_tokens, latest)
         IN  IF answers /\ Recoverable(row, cl.tnow)
             THEN /\ access_token' = row.token
                  /\ token_expires_at' = parse_expiry(row.expires_at)
                  /\ cl' = [cl EXCEPT !.at = "get", !.token = row.token, !.src = "storage",
                                      !.read = TRUE]
             ELSE /\ cl' = [cl EXCEPT !.at = "tok_post", !.read = answers]
                  /\ UNCHANGED <<access_token, token_expires_at>>
    /\ UNCHANGED <<utc, config, other, token_fail_until, storevars, issued, tr, failed, ncalls>>

\* _fetch_token and lines 233-240 of _get_access_token
TokPost ==
    /\ cl.at = "tok_post"
    /\ \E outcome \in PostOutcomes :
         IF config # "no_credentials" /\ PostOk(outcome)
         THEN /\ issued < MaxTokens
              /\ issued' = issued + 1
              /\ access_token' = TokenName(issued + 1)
              /\ token_expires_at' = FetchedExpiry(outcome, utc)
              /\ token_fail_until' = NoTime
              /\ cl' = [cl EXCEPT !.at = "tok_store", !.ftoken = TokenName(issued + 1),
                                  !.fexp = FetchedExpiry(outcome, utc)]
              /\ UNCHANGED failed
         ELSE /\ token_fail_until' = FailUntil(cl.tnow)
              /\ failed' = [t |-> cl.tnow, retried |-> FALSE]
              /\ cl' = [cl EXCEPT !.at = "get", !.token = "", !.src = "failed"]
              /\ UNCHANGED <<issued, access_token, token_expires_at>>
    /\ UNCHANGED <<utc, config, other, storevars, tr, ncalls>>

StoreFetched_legacy_key(tokens, token, exp) ==
    set_api_token(tokens, LegacyKey, token, isoformat(exp))

\* the api_tokens table after lines 242-245: the fetched token under _token_key()
StoreFetched(tokens, token, exp) ==
    set_api_token(tokens, token_key, token, isoformat(exp))

\* _get_access_token, lines 242-249: persist the fetched token, return the one in memory
TokStore ==
    /\ cl.at = "tok_store"
    /\ \E accepts \in BOOLEAN :
         /\ api_tokens' = IF accepts THEN StoreFetched(api_tokens, cl.ftoken, cl.fexp)
                          ELSE api_tokens
         /\ cl' = [cl EXCEPT !.at = "get", !.token = access_token, !.src = "live",
                             !.stored = accepts]
    /\ UNCHANGED <<utc, config, other, clientvars, api_cache, issued, tr, failed, ncalls>>

GetCap == 3
NoData == [shape |-> "other", items |-> <<>>]

\* what the API can answer a GET with; exc is a transport or JSON decoding error
GetResponses(res) ==
    {[status |-> st, exc |-> FALSE, data |-> NoData] : st \in {401, 500}}
    \cup {[status |-> 0, exc |-> TRUE, data |-> NoData]}
    \cup {[status |-> 200, exc |-> FALSE, data |-> d] :
             d \in IF res = "games" THEN GameData ELSE SeasonData}

RetryOn401_again(attempt, status) == status = 401

\* the 401 branch is taken for the first response only
RetryOn401(attempt, status) == attempt = 1 /\ status = 401

\* the statements inside the try block of fetch_games / fetch_active_seasons
Guarded == {"token", "get", "json"}

Escapes_transport(site) == site \notin (Guarded \ {"get"})

\* an exception raised at `site` reaches the caller of the fetch
Escapes(site) == site \notin Guarded

\* `async with sess.get(...)` and what follows the response
Get ==
    /\ cl.at = "get"
    /\ \E resp \in GetResponses(cl.res) :
         LET t == [tr EXCEPT !.gets = IF @ < GetCap THEN @ + 1 ELSE @,
                             !.status = resp.status, !.bare = (cl.token = "")]
         IN  IF ~resp.exc /\ RetryOn401(cl.attempt, resp.status)
             THEN /\ access_token' = ""
                  /\ cl' = [cl EXCEPT !.attempt = 2, !.rejected = cl.token,
                                      !.at = IF cl.res = "games" THEN "invalidate"
                                             ELSE "tok_check"]
                  /\ tr' = t
             ELSE /\ UNCHANGED access_token
                  /\ IF resp.exc THEN Return(t, <<>>, Escapes("get"))
                     ELSE IF resp.status # 200 THEN Return(t, <<>>, FALSE)
                     ELSE IF ItemRaises(cl.res, Items(resp.data))
                     THEN Return(t, <<>>, Escapes("item"))
                     ELSE Return(t, Parsed(cl.res, resp.data), FALSE)
    /\ UNCHANGED <<utc, config, other, token_expires_at, token_fail_until, storevars, issued,
                   failed, ncalls>>

\* fetch_games, lines 268-273: the durable token is cleared, best effort
Invalidate ==
    /\ cl.at = "invalidate"
    /\ \E accepts \in BOOLEAN :
         /\ api_tokens' = IF accepts THEN set_api_token(api_tokens, token_key, "", JNull)
                          ELSE api_tokens
         /\ tr' = [tr EXCEPT !.refused = @ \/ ~accepts]
    /\ cl' = [cl EXCEPT !.at = "tok_check"]
    /\ UNCHANGED <<utc, config, other, clientvars, api_cache, issued, failed, ncalls>>

CacheExpiry_no_ttl(c) == WrapperNow(c)

\* now + timedelta(minutes=ttl_minutes)
CacheExpiry(c) == WrapperNow(c) + c.ttl

CacheWrite_raises ==
    /\ cl.at = "cache_write"
    /\ \E accepts \in BOOLEAN :
         /\ api_cache' = IF accepts
                         THEN set_api_cache(api_cache, CacheKey(cl.res), Dump(cl.res, tr.ret),
                                            isoformat(CacheExpiry(cl)))
                         ELSE api_cache
         /\ tr' = [tr EXCEPT !.refused = @ \/ ~accepts, !.raised = ~accepts, !.done = TRUE]
    /\ cl' = NoCall
    /\ UNCHANGED <<utc, config, other, clientvars, api_tokens, issued, failed, ncalls>>

\* the cache write of the wrappers, reached with a non-empty list only
CacheWrite ==
    /\ cl.at = "cache_write"
    /\ \E accepts \in BOOLEAN :
         /\ api_cache' = IF accepts
                         THEN set_api_cache(api_cache, CacheKey(cl.res), Dump(cl.res, tr.ret),
                                            isoformat(CacheExpiry(cl)))
                         ELSE api_cache
         /\ tr' = [tr EXCEPT !.refused = @ \/ ~accepts, !.done = TRUE]
    /\ cl' = NoCall
    /\ UNCHANGED <<utc, config, other, clientvars, api_tokens, issued, failed, ncalls>>

\* the caller has taken the result of the call
CallEnd ==
    /\ tr.done
    /\ tr' = NoTrace
    /\ UNCHANGED <<utc, config, other, clientvars, storevars, issued, cl, failed, ncalls>>

\* the clock moves on by 30 seconds, or by nine minutes out of the first
\* minute, between two calls
Quiet == 18
Early == 2
TickApi ==
    /\ cl.at = "idle"
    /\ ~tr.done
    /\ \E d \in {1, Quiet} :
         /\ d = 1 => (utc < Early \/ utc >= Quiet)
         /\ d = Quiet => utc <= Early
         /\ utc + d <= MaxClock
         /\ utc' = utc + d
    /\ UNCHANGED <<config, other, clientvars, storevars, issued, cl, tr, failed, ncalls>>

\* the token rows a database file can hold when the client is constructed
TokenStores ==
    { NoRows,
      (LegacyKey :> [token |-> "legacy", expires_at |-> JIso(Hour)]),
      (token_key :> [token |-> "old", expires_at |-> JIso(1)])
          @@ (LegacyKey :> [token |-> "legacy", expires_at |-> JIso(Hour)]),
      (token_key :> [token |-> "old", expires_at |-> JNull]),
      (OtherKey :> [token |-> "other", expires_at |-> JIsoNaive(4)]) }

engvars == <<now, guild_settings, guild_games, season_cache, create_fault,
             pc, seasons, gq, si, game_toggles, pnow,
             events, log, calls, steady, last, cmds, probe, faulted>>

\* the engine at rest
EngineInit ==
    /\ now = 0
    /\ guild_settings = [g \in Guilds |-> NoRow]
    /\ guild_games = [g \in Guilds |-> NoToggles]
    /\ season_cache = {}
    /\ create_fault = FALSE
    /\ pc = "idle"
    /\ seasons = <<>>
    /\ gq = <<>>
    /\ si = 0
    /\ game_toggles = NoToggles
    /\ pnow = 0
    /\ events = <<>>
    /\ log = <<>>
    /\ calls = {}
    /\ steady = FALSE
    /\ last = NoLast
    /\ cmds = 0
    /\ probe = NoProbe
    /\ faulted = {}

\* a client constructed over the database file of an earlier run
InitApi ==
    /\ EngineInit
    /\ utc = 0
    /\ config \in {"ok", "no_credentials"}
    /\ access_token = ""
    /\ token_expires_at = NoTime
    /\ token_fail_until = NoTime
    /\ api_tokens \in TokenStores
    /\ api_cache = NoRows
    /\ issued = 0
    /\ cl = NoCall
    /\ tr = NoTrace
    /\ failed = NoFailed
    /\ ncalls = 0
    /\ other = NoOther

\* the steps of a protected GET and of the token manager
FetchStep ==
    \/ FetchBegin
    \/ TokCheck
    \/ TokDb
    \/ TokPost
    \/ TokStore
    \/ Get
    \/ Invalidate
    \/ CallEnd
    \/ TickApi

NextApi ==
    /\ \/ \E fn \in ApiFns \ Cached : StartCall(fn, FALSE, 0)
       \/ FetchStep
    /\ UNCHANGED engvars

\* fetch_games and fetch_active_seasons called on their own
SpecApi == InitApi /\ [][NextApi]_vars

\* the positions at which a call is suspended in an await
Awaits == {"cache_read", "tok_db", "tok_post", "tok_store", "get", "invalidate", "cache_write"}

\* the event loop resumes the call of another task (the poll task, a slash
\* command) while the running one is suspended in an await or has returned
Switch ==
    /\ cl.at \in Awaits \/ (cl.at = "idle" /\ ~tr.done)
    /\ cl.at # "idle" \/ other.cl.at # "idle"
    /\ other.switches < MaxSwitches
    /\ cl' = other.cl
    /\ tr' = other.tr
    /\ other' = [cl |-> cl, tr |-> tr, switches |-> other.switches + 1]
    /\ UNCHANGED <<utc, config, clientvars, storevars, issued, failed, ncalls>>

NextRace ==
    \/ NextApi
    \/ Switch /\ UNCHANGED engvars

\* a client with credentials constructed over an empty database file
InitRace ==
    /\ EngineInit
    /\ ClientInit
    /\ config = "ok"

\* two tasks call fetch_games and fetch_active_seasons on the one client
SpecRace == InitRace /\ [][NextRace]_vars

\* a client constructed over an empty database file
InitCache ==
    /\ EngineInit
    /\ ClientInit
    /\ config \in {"ok", "no_credentials", "no_api_base"}

\* cache rows of a damaged database file: invalid JSON and an expiry that
\* does not parse; a games item without slug and a seasons item that is no
\* object; a JSON object and a JSON number in place of the list
DamagedCaches ==
    { ("games:list" :> [value |-> [k |-> "invalid", items |-> <<>>],
                        expires_at |-> isoformat(Hour)])
        @@ ("seasons:active" :> [value |-> Dump("seasons", fetch_active_seasons(<<EntryNext>>)),
                                 expires_at |-> JStr("tba")]),
      ("games:list" :> [value |-> [k |-> "list", items |-> <<RawPoe, RawNoSlug>>],
                        expires_at |-> isoformat(Hour)])
        @@ ("seasons:active" :> [value |-> [k |-> "list", items |-> <<EntryNotDict>>],
                                 expires_at |-> isoformat(Hour)]),
      ("games:list" :> [value |-> [k |-> "dict", items |-> <<>>],
                        expires_at |-> isoformat(Hour)])
        @@ ("seasons:active" :> [value |-> [k |-> "num", items |-> <<>>],
                                 expires_at |-> isoformat(Hour)]) }

\* a client constructed over a database file whose cache rows are damaged
InitDamaged ==
    /\ EngineInit
    /\ utc = 0
    /\ config = "ok"
    /\ access_token = ""
    /\ token_expires_at = NoTime
    /\ token_fail_until = NoTime
    /\ api_tokens = NoRows
    /\ api_cache \in DamagedCaches
    /\ issued = 0
    /\ cl = NoCall
    /\ tr = NoTrace
    /\ failed = NoFailed
    /\ ncalls = 0
    /\ other = NoOther

NextCache ==
    /\ \/ \E fn \in ApiFns \ Cached : StartCall(fn, FALSE, 0)
       \/ \E ttl \in Ttls : StartCall("get_cached_games", FALSE, ttl)
       \/ \E force \in BOOLEAN, ttl \in Ttls :
              StartCall("get_cached_active_seasons", force, ttl)
       \/ CacheRead
       \/ CacheWrite
       \/ FetchStep
    /\ UNCHANGED engvars

\* the four entry points of the client, cached wrappers included
SpecCache == InitCache /\ [][NextCache]_vars

\* the cached wrappers reading damaged cache rows
SpecDamaged == InitDamaged /\ [][NextCache]_vars


(***************************************************************************)
(* Properties of the token manager and of the protected GETs.              *)
(***************************************************************************)
\* some stored token row clears the margin at time n
StoredValid(n) ==
    \E k \in DOMAIN api_tokens :
        /\ api_tokens[k].token # ""
        /\ api_tokens[k].expires_at.k = "iso"
        /\ api_tokens[k].expires_at.n - n > Margin

\* C11: get_access_token returns a token held in memory or recovered from
\* durable storage only when its expiry is strictly more than 60 seconds after
\* the call time; a token with 30 or exactly 60 seconds left is not valid and,
\* when no backoff window is active, a live token fetch is performed instead.
C11_StrictMargin ==
    /\ [][(cl.at = "tok_check" /\ cl'.at = "get" /\ cl'.token # "")
            => /\ cl'.token = access_token
               /\ token_expires_at # NoTime
               /\ token_expires_at - utc > Margin]_vars
    /\ [][(cl.at = "tok_db" /\ cl'.at = "get")
            => /\ cl'.token # ""
               /\ access_token' = cl'.token
               /\ token_expires_at' - utc > Margin
               /\ \E k \in DOMAIN api_tokens :
                    /\ api_tokens[k].token = cl'.token
                    /\ api_tokens[k].expires_at.k = "iso"
                    /\ api_tokens[k].expires_at.n = token_expires_at']_vars
    /\ [][(/\ cl.at = "tok_check"
           /\ ~(token_fail_until # NoTime /\ utc < token_fail_until)
           /\ ~(access_token # "" /\ token_expires_at # NoTime
                /\ token_expires_at - utc > Margin))
            => cl'.at = "tok_db"]_vars
    /\ [][(cl.at = "tok_db" /\ ~StoredValid(utc)) => cl'.at = "tok_post"]_vars

\* a token with exactly 60 seconds left is held in memory and in storage, and the
\* call has gone on to the live fetch
C11_Witness ==
    /\ cl.at = "tok_post"
    /\ access_token # ""
    /\ token_expires_at - cl.tnow = Margin
    /\ get_api_token(api_tokens, token_key).token = access_token
    /\ parse_expiry(get_api_token(api_tokens, token_key).expires_at) = token_expires_at


\* C12: when the first GET of fetch_games or fetch_active_seasons is answered
\* 401, the rejected token is gone from memory and from durable storage (where
\* the store takes the write) before the token is obtained again, and the retry
\* does not carry the rejected token.
C12_RejectedTokenNotResent ==
    (cl.attempt = 2 /\ cl.rejected # "") =>
        /\ cl.at = "tok_check" =>
             /\ access_token = ""
             /\ ~tr.refused => get_api_token(api_tokens, token_key).token # cl.rejected
        /\ cl.at = "get" => cl.token # cl.rejected


\* C13: one call of fetch_games or fetch_active_seasons issues at most two
\* GETs. The 401 sequence (new token, second GET) runs only from the first GET;
\* whatever the second GET answers, the call ends there, and with an empty list
\* and no exception unless the answer is 200.
C13_AtMostTwoGets ==
    /\ [](tr.gets <= 2)
    /\ [][(cl.at = "get" /\ cl.attempt = 2) => cl'.at \in {"idle", "cache_write"}]_vars
    /\ [][(cl'.attempt = 2 /\ cl.attempt # 2) =>
            /\ cl.at = "get" /\ cl.attempt = 1
            /\ tr'.status = 401 /\ tr'.gets = 1]_vars
    /\ [](tr.done /\ tr.gets = 2 /\ tr.status # 200 =>
            tr.ret = <<>> /\ ~tr.raised)

\* C13 witness: a call whose second GET was answered 401 too has ended with an
\* empty list after exactly two GETs.
C13_Witness ==
    /\ tr.done /\ tr.gets = 2 /\ tr.status = 401
    /\ tr.ret = <<>> /\ ~tr.raised


\* C14: while a backoff window is set and the clock is before its end,
\* _get_access_token returns no token at once: no durable lookup is made, no
\* token POST is made, and neither the client's token state nor the store
\* changes.
C14_CircuitBreaker ==
    /\ [][(cl.at = "tok_check" /\ token_fail_until # NoTime /\ utc < token_fail_until) =>
            /\ cl'.at = "get" /\ cl'.token = "" /\ cl'.src = "backoff"
            /\ UNCHANGED <<clientvars, storevars, issued>>]_vars
    /\ [](cl.at \in {"tok_db", "tok_post", "tok_store"} =>
            token_fail_until = NoTime \/ cl.tnow >= token_fail_until)

\* C14 witness: the window held a call back although durable storage had a
\* token the lookups would have recovered.
C14_Witness ==
    /\ cl.at = "get" /\ cl.src = "backoff" /\ cl.token = ""
    /\ cl.tnow < token_fail_until
    /\ \E latest \in get_latest_api_token(api_tokens) :
         Recoverable(Lookup(api_tokens, latest), cl.tnow)


\* C15 as stated: after a token acquisition failed at time t, no later call
\* makes a token POST before t + 10 minutes, and the first call at or after
\* t + 10 minutes attempts a live fetch again.
C15_LiveFetchAfterWindow ==
    /\ cl.at = "tok_post" => (failed.t = NoTime \/ cl.tnow >= failed.t + Backoff)
    /\ (cl.at = "get" /\ cl.first) => cl.src \in {"live", "failed"}

\* C15 amended: no token POST is made before t + 10 minutes; the first call at
\* or after t + 10 minutes is no longer held back by the window: it returns a
\* valid token recovered from durable storage when the lookups find one, and
\* attempts a live fetch otherwise.
C15_BackoffWindow ==
    /\ [](cl.at = "tok_post" => (failed.t = NoTime \/ cl.tnow >= failed.t + Backoff))
    /\ []((cl.at = "get" /\ cl.first) => cl.src \in {"live", "failed", "storage"})
    /\ []((cl.at = "get" /\ cl.first /\ cl.src = "storage") =>
            /\ cl.token = access_token /\ cl.token # ""
            /\ Valid(token_expires_at, cl.tnow))
    /\ [][(cl.at = "tok_db" /\ cl.first /\ ~StoredValid(cl.tnow)) =>
            cl'.at = "tok_post"]_vars

\* C15 witness: the first call at or after the end of the window is at the
\* token POST again.
C15_Witness ==
    /\ cl.at = "tok_post" /\ cl.first
    /\ failed.t # NoTime /\ cl.tnow >= failed.t + Backoff


\* C16: after a successful live token fetch the token and expiry in memory are
\* the fetched ones and the backoff window is cleared; the record under the
\* token key holds the same token and expiry when the store accepts the write,
\* and the store is untouched when it does not; the fetched token is returned
\* either way.
C16_FetchedTokenKept ==
    /\ [](cl.at = "tok_store" =>
            /\ cl.ftoken # "" /\ access_token = cl.ftoken
            /\ cl.fexp # NoTime /\ token_expires_at = cl.fexp
            /\ token_fail_until = NoTime)
    /\ [][cl.at = "tok_store" =>
            /\ cl'.at = "get" /\ cl'.src = "live" /\ cl'.token = cl.ftoken
            /\ UNCHANGED <<clientvars, api_cache>>
            /\ cl'.stored =>
                 /\ token_key \in DOMAIN api_tokens'
                 /\ api_tokens'[token_key].token = cl.ftoken
                 /\ parse_expiry(api_tokens'[token_key].expires_at) = cl.fexp
                 /\ \A k \in (DOMAIN api_tokens') \ {token_key} :
                      k \in DOMAIN api_tokens /\ api_tokens'[k] = api_tokens[k]
                 /\ \A k \in DOMAIN api_tokens : k \in DOMAIN api_tokens'
            /\ ~cl'.stored => UNCHANGED api_tokens]_vars

\* C16 witness: a live fetch that followed an earlier failure returned its
\* token although the store refused the write.
C16_Witness ==
    /\ cl.at = "get" /\ cl.src = "live" /\ ~cl.stored
    /\ cl.token # "" /\ cl.token = access_token
    /\ failed.t # NoTime /\ token_fail_until = NoTime


(***************************************************************************)
(* Properties of the cached wrappers.                                      *)
(***************************************************************************)
\* the entry a wrapper call that ended with `t` writes when the store takes it
WrittenEntry(t) ==
    [value |-> Dump(Resource(t.fn), t.ret), expires_at |-> isoformat(t.t0 + t.ttl)]

\* C17 as stated: a get_cached_games call that went to the API and got a 200
\* answer it could read has written its result under games:list with expiry
\* now + ttl (the store taking the write).
C17_WriteOnSuccess ==
    (/\ tr.done /\ tr.fn = "get_cached_games" /\ ~tr.hit
     /\ tr.status = 200 /\ ~tr.raised /\ ~tr.refused) =>
        get_api_cache(api_cache, "games:list") = WrittenEntry(tr)

\* C17 amended: get_cached_games answers from the games:list entry without any
\* HTTP request when the entry is present and unexpired; otherwise it makes a
\* live fetch and writes a non-empty result under games:list with expiry
\* now + ttl, so that a following call before that expiry is a hit.
C17_CachedGames ==
    /\ [][(/\ cl.at = "cache_read" /\ cl.res = "games" /\ tr'.answered
           /\ Fresh(get_api_cache(api_cache, "games:list"), utc)) =>
            /\ tr'.done /\ tr'.hit /\ tr'.gets = 0 /\ ~tr'.live /\ ~tr'.raised
            /\ tr'.ret = Load("games", get_api_cache(api_cache, "games:list").value)
            /\ cl'.at = "idle"]_vars
    /\ [][(/\ cl.at = "cache_read" /\ cl.res = "games"
           /\ ~Fresh(get_api_cache(api_cache, "games:list"), utc)) =>
            cl'.at = "fetch"]_vars
    /\ []((tr.fn = "get_cached_games" /\ tr.hit) => (tr.gets = 0 /\ ~tr.live))
    /\ []((/\ tr.done /\ tr.fn = "get_cached_games" /\ ~tr.hit
           /\ tr.ret # <<>> /\ ~tr.refused) =>
            /\ tr.live /\ tr.status = 200
            /\ get_api_cache(api_cache, "games:list") = WrittenEntry(tr)
            /\ Fresh(get_api_cache(api_cache, "games:list"), tr.t0 + tr.ttl - 1))

\* C17 witness: the second get_cached_games call, made after the clock moved
\* but within the TTL of the first call's write, was a hit.
C17_Witness ==
    /\ tr.done /\ tr.fn = "get_cached_games" /\ tr.hit
    /\ tr.ret # <<>> /\ tr.gets = 0
    /\ ncalls = 2 /\ tr.t0 > 0


\* C18: for games:list and seasons:active alike, a call answers from the cache
\* only when the entry's expires_at is strictly later than now; an entry whose
\* expires_at equals now is expired and the call goes on to the live fetch.
C18_StrictExpiry ==
    /\ [][(cl.at = "cache_read" /\ tr'.hit) =>
            /\ CacheKey(cl.res) \in DOMAIN api_cache
            /\ parse_expiry(api_cache[CacheKey(cl.res)].expires_at) > utc]_vars
    /\ [][(/\ cl.at = "cache_read"
           /\ CacheKey(cl.res) \in DOMAIN api_cache
           /\ parse_expiry(api_cache[CacheKey(cl.res)].expires_at) <= utc) =>
            /\ cl'.at = "fetch" /\ ~tr'.hit /\ ~tr'.done]_vars

\* C18 witness: the seasons:active entry expires at this very instant and
\* the call, having read it, is at the live fetch.
C18_Witness ==
    /\ cl.at = "fetch" /\ cl.fn = "get_cached_active_seasons" /\ tr.answered
    /\ "seasons:active" \in DOMAIN api_cache
    /\ parse_expiry(api_cache["seasons:active"].expires_at) = utc


\* C19: get_cached_active_seasons with force_refresh never reads the
\* seasons:active entry nor answers from it and always calls the live fetch,
\* and a non-empty result replaces the entry with expiry now + ttl (the store
\* taking the write); without force_refresh a read that finds an unexpired
\* entry ends the call with no live fetch.
C19_ForceRefresh ==
    /\ [](cl.force => cl.at # "cache_read")
    /\ [](tr.force => (~tr.hit /\ ~tr.answered))
    /\ []((tr.done /\ tr.force) => tr.live)
    /\ []((tr.done /\ tr.force /\ tr.ret # <<>> /\ ~tr.refused) =>
            get_api_cache(api_cache, "seasons:active") = WrittenEntry(tr))
    /\ [][(/\ cl.at = "cache_read" /\ cl.res = "seasons" /\ tr'.answered
           /\ Fresh(get_api_cache(api_cache, "seasons:active"), utc)) =>
            /\ tr'.done /\ tr'.hit /\ ~tr'.live /\ tr'.gets = 0
            /\ cl'.at = "idle" /\ UNCHANGED api_cache]_vars

\* C19 witness: a forced call holds a non-empty live result and is about to
\* replace an entry that has not expired and holds another list.
C19_Witness ==
    /\ cl.at = "cache_write" /\ cl.force /\ tr.live /\ tr.ret # <<>>
    /\ Fresh(get_api_cache(api_cache, "seasons:active"), utc)
    /\ get_api_cache(api_cache, "seasons:active").value # Dump("seasons", tr.ret)


\* C20 as stated: a call of fetch_games, fetch_active_seasons or a cached
\* wrapper that met a fetch failure (no GET sent for want of an API base, a
\* transport exception, a last answer other than 200, or no token obtained
\* for its last GET) returned an empty list and did not raise.
C20_EmptyOnFailure ==
    /\ (tr.done /\ ~tr.hit /\ (tr.gets = 0 \/ tr.status # 200)) =>
          (tr.ret = <<>> /\ ~tr.raised)
    /\ (tr.done /\ ~tr.hit /\ tr.bare /\ ~tr.raised) => tr.ret = <<>>

\* C20 amended: the four entry points return an empty list and do not raise
\* when the API base is missing, the GET fails in transport or the last answer
\* is not 200. A failure to obtain a token does not raise and does not end the
\* call: the GET goes out without a token and its answer decides the result.
C20_NoRaiseOnFailure ==
    /\ []((tr.done /\ ~tr.hit /\ (tr.gets = 0 \/ tr.status # 200)) =>
            (tr.ret = <<>> /\ ~tr.raised))
    /\ [](tr.raised => (tr.status = 200 /\ tr.gets >= 1))
    /\ [][cl.at \in {"tok_check", "tok_db", "tok_post", "tok_store"} =>
            (cl'.at \in {"tok_db", "tok_post", "tok_store", "get"} /\ tr' = tr)]_vars
    /\ []((cl.at = "get" /\ cl.src \in {"backoff", "failed"}) => cl.token = "")
    /\ []((config = "no_api_base" /\ tr.fn # "none") => tr.gets = 0)

\* C20 witness: a get_cached_games call that obtained no token and whose GET
\* failed in transport has ended with an empty list and without raising.
C20_Witness ==
    /\ tr.done /\ tr.fn = "get_cached_games" /\ tr.bare
    /\ tr.gets = 1 /\ tr.status = 0
    /\ tr.ret = <<>> /\ ~tr.raised
    /\ config = "no_credentials"


(***************************************************************************)
(* Properties of error handling in the client.                             *)
(***************************************************************************)
\* C21: a payload item that is no well-formed object, or lacks its slug or
\* key, is skipped on its own: a fetch answered 200 does not raise for the
\* whole list.
C21_MalformedItemSkipped ==
    (tr.done /\ ~tr.hit /\ tr.gets >= 1 /\ tr.status = 200) => ~tr.raised


\* the stored entry of a resource is a list of well-formed records with an
\* expiry that parses
WellFormedEntry(res, entry) ==
    /\ parse_expiry(entry.expires_at) # NoTime
    /\ entry.value.k = "list"
    /\ \A i \in 1..Len(entry.value.items) :
         LET x == entry.value.items[i]
         IN  /\ IsDict(x)
             /\ IF res = "games" THEN normalize_game(x) # NoGame
                ELSE x.season_key # ""

\* C22: a malformed cache entry is never what get_cached_games or
\* get_cached_active_seasons answers from, whole, in part or as an empty list:
\* a call that answered from the cache read a well-formed entry, and a cache
\* read does not raise.
C22_DamagedEntryNotUsed ==
    /\ (tr.done /\ tr.hit) =>
          WellFormedEntry(Resource(tr.fn),
                          get_api_cache(api_cache, CacheKey(Resource(tr.fn))))
    /\ (tr.done /\ tr.gets = 0) => ~tr.raised


\* C23: when the store raises on a cache read, a cache write, a token read or
\* a token write, the cached wrappers go on: a failed cache read leads to the
\* live fetch, a failed token read or write leaves the call at its next step,
\* and a failed cache write still returns the fetched list; none of these
\* steps raises to the caller.
C23_StoreFaultsTolerated ==
    /\ [][(cl.at = "cache_read" /\ ~tr'.answered) =>
            (cl'.at = "fetch" /\ ~tr'.done /\ ~tr'.raised)]_vars
    /\ [][cl.at \in {"tok_db", "tok_store", "invalidate"} =>
            /\ cl'.at \in {"tok_check", "tok_post", "get"}
            /\ ~tr'.done /\ ~tr'.raised /\ tr'.ret = tr.ret]_vars
    /\ [][cl.at = "cache_write" =>
            /\ tr'.done /\ ~tr'.raised /\ tr'.live
            /\ tr'.ret = tr.ret /\ tr'.ret # <<>>
            /\ cl'.at = "idle"]_vars
    /\ []((tr.done /\ tr.fn \in Cached /\ ~tr.force /\ ~tr.answered) => tr.live)

\* C23 witness: get_cached_games returned a fetched catalog although the
\* cache read raised and both the token write and the cache write were
\* refused, which left the two tables empty.
C23_Witness ==
    /\ tr.done /\ tr.fn = "get_cached_games" /\ ~tr.answered /\ tr.refused
    /\ tr.live /\ tr.ret # <<>> /\ ~tr.raised
    /\ access_token # "" /\ api_tokens = NoRows /\ api_cache = NoRows


(***************************************************************************)
(* Properties of fault isolation in the poll cycle.                        *)
(***************************************************************************)
\* C24: a fault raised while one guild is processed does not abort the poll
\* cycle: the guild loop goes on with the guilds left, with the same season
\* list, and the cycle ends only when no guild is left.
C24_GuildFaultIsolated ==
    /\ [][faulted' # faulted /\ faulted' # {} =>
            /\ gq # <<>> /\ gq' = Tail(gq)
            /\ pc' = "guild" /\ seasons' = seasons
            /\ UNCHANGED <<dbvars, events>>]_vars
    /\ [][(pc # "idle" /\ pc' = "idle") => (pc = "guild" /\ gq = <<>>)]_vars
    /\ [][(pc # "idle" /\ pc' # "idle") =>
            (seasons' = seasons /\ (gq' = gq \/ gq' = Tail(gq)))]_vars
    /\ [](pc = "guild" =>
            \E k \in 0..Len(GuildOrder) : gq = SubSeq(GuildOrder, k + 1, Len(GuildOrder)))

\* C24 witness: the first guild's processing raised, and the second guild is
\* at the creation of an event in the same cycle.
C24_Witness ==
    /\ pc = "create" /\ Len(gq) = 1
    /\ faulted = {GuildOrder[1]} /\ Head(gq) \notin faulted


\* C25: a fault while one season of a guild is handled does not keep the
\* remaining seasons of that guild from being processed in the same cycle:
\* while seasons remain after the one being handled, a step of the cycle
\* stays in that guild's season loop, at this season or at the next one.
C25_SeasonFaultIsolated ==
    [][(pc \in {"season", "create", "mark"} /\ si < Len(seasons)) =>
          /\ pc' \in {"season", "create", "mark"}
          /\ gq' = gq /\ seasons' = seasons
          /\ si' \in {si, si + 1}]_vars


\* C26: when the poll task is stopped at an await and polling starts again,
\* every event created before the stop has its triple in the seen-set, so no
\* triple gets a second event.
C26_CancellationSafe ==
    /\ pc = "idle" => \A t \in DOMAIN events : t \in season_cache
    /\ \A t \in DOMAIN events : events[t] <= 1


(***************************************************************************)
(* Properties of the seen-set, the capability check and the commands.      *)
(***************************************************************************)
\* C27: the seen-set only grows: no step of the poll cycle, of a command, of
\* the clock, of the event system or of a failing or cancelled cycle removes
\* a triple, and mark_season_seen of a triple already present leaves the set
\* as it is.
C27_SeenSetAppendOnly ==
    /\ [][season_cache \subseteq season_cache']_vars
    /\ [](\A t \in season_cache :
            mark_season_seen(season_cache, t[1], t[2], t[3]) = season_cache)
    /\ [](\A t \in season_cache : is_season_seen(season_cache, t[1], t[2], t[3]))

\* C27 witness: a triple is being added to a seen-set that already holds
\* another one.
C27_Witness ==
    /\ pc = "mark"
    /\ season_cache # {}
    /\ Triple(Head(gq), seasons[si]) \notin season_cache


\* the last entry of the running guild's call log
LastLog == log[Len(log)]

\* C28: when the bot's member is not found or lacks manage_events, the
\* capability check ends _create_event_for_season before the external call:
\* no event comes into being, the result is False and the season stays out
\* of the seen-set; an event comes into being only through a call that
\* passed the check.
C28_CapabilityCheckedFirst ==
    /\ [][(/\ pc = "create" /\ Len(log') = Len(log) + 1
           /\ log'[Len(log')].outcome \in {"member_not_found", "missing_permission"}) =>
            /\ events' = events
            /\ season_cache' = season_cache
            /\ Triple(Head(gq), seasons[si]) \notin season_cache'
            /\ pc' = "season" /\ si' = si + 1]_vars
    /\ [][events' # events =>
            /\ pc = "create" /\ Len(log') = Len(log) + 1
            /\ log'[Len(log')].outcome = "created"]_vars

\* C28 witness: the check found manage_events missing; the season is
\* unseen, has no event, and the loop has moved on.
C28_Witness ==
    /\ pc = "season" /\ log # <<>>
    /\ LastLog.op = "create" /\ LastLog.outcome = "missing_permission"
    /\ <<Head(gq), LastLog.slug, LastLog.key>> \notin season_cache
    /\ <<Head(gq), LastLog.slug, LastLog.key>> \notin DOMAIN events


C30_LiveFetchOnlyWithoutStoredToken ==
    [][(cl.at = "tok_db" /\ cl'.at = "tok_post" /\ cl'.read) =>
          /\ ~Recoverable(get_api_token(api_tokens, token_key), cl.tnow)
          /\ ~Recoverable(get_api_token(api_tokens, LegacyKey), cl.tnow)
          /\ \A latest \in get_latest_api_token(api_tokens) :
                 ~Recoverable(latest, cl.tnow)]_vars

\* C31: a stored token whose expires_at is absent is treated as long-lived:
\* when the store answers and the endpoint-derived key holds a token without
\* an expiry, _get_access_token returns that token and goes to no token POST.
C31_AbsentExpiryLongLived ==
    [][(cl.at = "tok_db" /\ cl'.at # "tok_db" /\ cl'.read
          /\ get_api_token(api_tokens, token_key).token # ""
          /\ get_api_token(api_tokens, token_key).expires_at = JNull) =>
          /\ cl'.at = "get"
          /\ cl'.token = get_api_token(api_tokens, token_key).token]_vars

\* the records of a season list with the game and the key of s
Occurrences(list, s) ==
    Cardinality({i \in 1..Len(list) : list[i].game_slug = s.game_slug
                                      /\ list[i].season_key = s.season_key})

\* the entries of a payload that name the season of s in one of their blocks
Mentions(resp, s) ==
    Cardinality({k \in 1..Len(resp) :
        \E r \in {current_season_from_entry(resp[k]), next_season_from_entry(resp[k])} :
            r # NoSeason /\ r.game_slug = s.game_slug /\ r.season_key = s.season_key})

\* C32: in one live fetch a 'next' record with the game and the key of a record
\* already collected is dropped: every season a payload names is in the fetched
\* list, and no entry contributes the same (game_slug, season_key) twice, so an
\* entry repeating one season in 'current' and 'next' yields one record for it.
C32_NextDuplicateDropped ==
    [][(pc = "idle" /\ pc' = "guild") =>
          /\ \E resp \in Responses : seasons' = fetch_active_seasons(resp)
          /\ \A resp \in Responses :
               seasons' = fetch_active_seasons(resp) =>
                   \A k \in 1..Len(resp) :
                       \A r \in {current_season_from_entry(resp[k]),
                                 next_season_from_entry(resp[k])} \ {NoSeason} :
                           /\ Occurrences(seasons', r) >= 1
                           /\ Occurrences(seasons', r) <= Mentions(resp, r)]_vars

\* C32 witness: the cycle runs on the list fetched from an entry that repeats
\* one season in its 'current' and its 'next' block, and the list has one record
C32_Witness ==
    /\ pc = "guild"
    /\ current_season_from_entry(EntryBoth) = next_season_from_entry(EntryBoth)
    /\ seasons = fetch_active_seasons(<<EntryBoth>>)
    /\ seasons = <<current_season_from_entry(EntryBoth)>>

\* C33: a season whose start time is unknown is classified as not upcoming, and
\* for an enabled guild with the game toggled on it is added to the seen-set by
\* the first pass that handles it while unseen, with no event-creation call: the
\* loop never reaches event creation for a record without a start.
C33_UnknownStartMarked ==
    /\ [][(HandlesUnseen /\ seasons[si].starts_at = NoTime) =>
            /\ MarkedSilently
            /\ log' = Append(log, LogMark(seasons[si], "mark_started"))]_vars
    /\ [](\A i \in 1..Len(seasons), n \in 0..MaxTime :
            seasons[i].starts_at = NoTime => ~IsUpcoming(seasons[i], n))
    /\ [](\A i \in 1..Len(log) :
            log[i].op = "create" =>
                \E j \in 1..Len(seasons) :
                    /\ seasons[j].game_slug = log[i].slug
                    /\ seasons[j].season_key = log[i].key
                    /\ seasons[j].starts_at # NoTime)

\* C33 witness: the pass has just marked a season whose start is unknown, and
\* the guild has no event for it
C33_Witness ==
    /\ pc = "season"
    /\ si > 1
    /\ Handled.starts_at = NoTime
    /\ Len(log) > 0
    /\ log[Len(log)] = LogMark(Handled, "mark_started")
    /\ Triple(Head(gq), Handled) \in season_cache
    /\ Triple(Head(gq), Handled) \notin DOMAIN events

\* C34: retrying a failed event creation ends with the season start. A pass
\* that begins at or after the start of an unseen season (guild enabled, game
\* on) adds it to the seen-set without an event-creation call, whatever failed
\* before; an event is created only for an unseen season whose start is still
\* ahead; and a season in the seen-set without an event never gets one.
C34_RetryEndsAtStart ==
    /\ [][(/\ HandlesUnseen
           /\ seasons[si].starts_at # NoTime
           /\ seasons[si].starts_at <= pnow) => MarkedSilently]_vars
    /\ [][events' # events =>
            /\ pc = "create"
            /\ Triple(Head(gq), seasons[si]) \notin season_cache
            /\ seasons[si].starts_at > now
            /\ \A t \in DOMAIN events' :
                   t # Triple(Head(gq), seasons[si]) =>
                       t \in DOMAIN events /\ events'[t] = events[t]]_vars
    /\ [][\A t \in season_cache : t \notin DOMAIN events => t \notin DOMAIN events']_vars

\* C34 witness: event creation for the season failed in the cycle before, the
\* season has started since, and this pass has marked it seen without an event
C34_Witness ==
    /\ pc = "season"
    /\ si > 1
    /\ steady
    /\ <<Head(gq), Handled.game_slug, Handled.season_key, FALSE>> \in last.calls
    /\ Handled.starts_at # NoTime
    /\ Handled.starts_at <= pnow
    /\ log # <<>>
    /\ log[Len(log)].op = "mark"
    /\ log[Len(log)].key = Handled.season_key
    /\ Triple(Head(gq), Handled) \in season_cache
    /\ Triple(Head(gq), Handled) \notin DOMAIN events

\* C35: under interleaved _get_access_token calls on one client the backoff
\* window is never active while the client holds a token in memory that clears
\* the 60-second margin, so no call returns None out of the backoff while a
\* usable token is in memory.
C35_NoBackoffOverUsableToken ==
    ~(/\ BackoffActive(token_fail_until, utc)
      /\ access_token # ""
      /\ Valid(token_expires_at, utc))

\* C36: enablement and game toggles are read once per guild, when its
\* processing starts: a command committed while the guild is being processed
\* changes neither the copy the season loop works on nor the loop's position,
\* so the remaining seasons of the pass are decided on the copy (an event may
\* still be created for a guild disabled meanwhile), and the next pass over the
\* guild starts from the tables as they are then.
C36_SettingsReadOncePerGuild ==
    /\ [][cmds' # cmds => UNCHANGED <<pc, gq, si, seasons, game_toggles, pnow, events>>]_vars
    /\ [][(pc = "guild" /\ pc' = "season") =>
            /\ guild_settings[Head(gq)] \in {NoRow, 1}
            /\ game_toggles' = guild_games[Head(gq)]]_vars
    /\ [][(pc \in {"season", "create", "mark"} /\ pc' \in {"season", "create", "mark"}) =>
            game_toggles' = game_toggles]_vars
    /\ [][events' # events => game_toggles[seasons[si].game_slug] = 1]_vars

\* C36 witness: the guild was disabled while its pass was running, and the pass
\* has created an event for the guild all the same
C36_Witness ==
    /\ pc = "mark"
    /\ guild_settings[Head(gq)] = 0
    /\ Triple(Head(gq), seasons[si]) \in DOMAIN events
    /\ game_toggles[seasons[si].game_slug] = 1

\* C37: a poll cycle whose season fetch yields an empty list processes no guild:
\* a cycle runs only on a non-empty list, and outside such a cycle no guild
\* settings row is created, no triple is added to the seen-set and no event is
\* created (a settings row changes otherwise only by a command).
C37_EmptyFetchChangesNothing ==
    /\ [](pc # "idle" => seasons # <<>>)
    /\ [](seasons = <<>> => pc = "idle" /\ gq = <<>>)
    /\ [][(\/ guild_settings' # guild_settings /\ cmds' = cmds
           \/ season_cache' # season_cache
           \/ events' # events) => pc # "idle" /\ seasons # <<>>]_vars
    /\ [][(pc = "idle" /\ cmds' = cmds /\ seasons' = <<>>) =>
            UNCHANGED <<pc, gq, guild_settings, guild_games, season_cache, events>>]_vars

\* C37 witness: the bot is at rest over a guild that is enabled with a game
\* toggled on, the catalog can answer with an empty list, and no settings row
\* of the other guild, no seen triple and no event exists
C37_Witness ==
    /\ pc = "idle"
    /\ seasons = <<>>
    /\ now > 0
    /\ \E resp \in Responses : resp # <<>> /\ fetch_active_seasons(resp) = <<>>
    /\ \E g \in Guilds :
         /\ guild_settings[g] = 1
         /\ \E slug \in Slugs : guild_games[g][slug] = 1
         /\ \A h \in Guilds \ {g} : guild_settings[h] = NoRow
    /\ season_cache = {}
    /\ events = <<>>

C39_CacheRoundTrip ==
    (/\ tr.done /\ tr.fn \in Cached /\ tr.live
     /\ tr.ret # <<>> /\ ~tr.raised /\ ~tr.refused) =>
        /\ get_api_cache(api_cache, CacheKey(Resource(tr.fn))) = WrittenEntry(tr)
        /\ Load(Resource(tr.fn), WrittenEntry(tr).value) = tr.ret

====
